---- MODULE Spec2Model ----
(***************************************************************************)
(* A model of pdb2pqr/io.py: the atom-line writer                          *)
(* (print_biomolecule_atoms), the two provenance-header builders           *)
(* (print_pqr_header, print_pqr_header_cif), the OpenDX reader (read_dx),  *)
(* the Cube writer (write_cube), the atom-line readers (read_pqr,          *)
(* read_qcd), the warning filter (DuplicateFilter) and the data-file       *)
(* lookup (test_for_file).                                                 *)
(*                                                                         *)
(* Text is modelled as what the code appends or writes, piece by piece:    *)
(* a piece is a sequence of tokens, a token is a record, and the line      *)
(* break "\n" is a token of its own, so that "how many list elements" and  *)
(* "how many text lines" are different questions.                          *)
(***************************************************************************)
EXTENDS Integers, Sequences, FiniteSets, TLC

VARIABLES
    \* print_biomolecule_atoms
    atomlist,          \* the caller's list of atoms (mutated in place)
    serial_before,     \* the serials the atoms had when the call started
    chainflag,         \* argument
    pdbfile,           \* argument
    text,              \* the list being built and returned
    currentchain_id,   \* local
    iatom,             \* enumerate() index of the next atom
    pba_pc,            \* "idle" | "loop" | "done"
    \* print_pqr_header, print_pqr_header_cif
    hargs,             \* the arguments of the call
    head,              \* what print_pqr_header returned
    header,            \* what print_pqr_header_cif returned
    returned,          \* the header functions that have returned
    log,               \* the records _LOGGER has been given
    \* read_dx
    dx_file,           \* the lines of the file, each split into its tokens
    dx_dict,           \* the dictionary being filled
    dx_pos,            \* the number of lines consumed
    dx_state,          \* "idle" | "reading" | "returned" | the exception raised
    \* write_cube
    cube_args,         \* the arguments of the call
    cube_file,         \* the strings written to cube_file, in order
    cube_i,            \* the loop index i of the value rows
    cube_pc,           \* "idle" | "start" | "values" | "done"
    \* read_pqr, read_qcd
    rd_fn,             \* which of the two readers is running
    rd_file,           \* the lines of the file
    rd_atoms,          \* the list being built and returned
    atom_serial,       \* read_qcd's running serial
    rd_pos,            \* the number of lines consumed
    rd_state,          \* "idle" | "reading" | "returned" | the exception raised
    \* DuplicateFilter
    limit,             \* the value of FILTER_WARNINGS_LIMIT
    warn_count,        \* self.warn_count
    filtered,          \* the records given to filter(), each with its result
    notices,           \* the prefixes announced with "Suppressing further"
    \* test_for_file
    tf_name,           \* argument name
    tf_type,           \* argument type_
    dat_files,         \* the files that exist in the package's dat directory
    tf_result,         \* the path returned
    tf_state           \* "idle" | "called" | "returned" | the exception raised

atomVars == <<atomlist, serial_before, chainflag, pdbfile, text,
              currentchain_id, iatom, pba_pc>>

hdrVars == <<hargs, head, header, returned, log>>

dxVars == <<dx_file, dx_dict, dx_pos, dx_state>>

cubeVars == <<cube_args, cube_file, cube_i, cube_pc>>

readVars == <<rd_fn, rd_file, rd_atoms, atom_serial, rd_pos, rd_state>>

filterVars == <<limit, warn_count, filtered, notices>>

fileVars == <<tf_name, tf_type, dat_files, tf_result, tf_state>>

vars == <<atomVars, hdrVars, dxVars, cubeVars, readVars, filterVars, fileVars>>

\* Python's None.
None == "None"

(***************************************************************************)
(* Generic helpers on sequences.                                           *)
(***************************************************************************)
RECURSIVE Flatten(_)
Flatten(ss) == IF ss = <<>> THEN <<>> ELSE Head(ss) \o Flatten(Tail(ss))

RECURSIVE SeqsUpTo(_, _)
SeqsUpTo(S, n) ==
    IF n = 0 THEN {<<>>}
    ELSE LET shorter == SeqsUpTo(S, n - 1)
         IN  shorter \cup {Append(s, x) : s \in {t \in shorter : Len(t) = n - 1}, x \in S}

Max(a, b) == IF a >= b THEN a ELSE b

(***************************************************************************)
(* print_biomolecule_atoms                                                 *)
(***************************************************************************)
MaxAtoms == 3
ChainIds == {"", "A", "B"}
OldSerials == {1, 7}

\* A token of output text.
Tok(kind) == [kind |-> kind, fmt |-> "", chainflag |-> FALSE, serial |-> 0, chain_id |-> ""]
NL == Tok("NL")
TER == Tok("TER")
END == Tok("END")

\* atom.get_pdb_string(): the line of the atom as it is at the time of the call.
GetPdbString(atom) ==
    [kind |-> "atom", fmt |-> "pdb", chainflag |-> FALSE,
     serial |-> atom.serial, chain_id |-> atom.chain_id]

\* atom.get_pqr_string(chainflag=chainflag), likewise.
GetPqrString(atom, cf) ==
    [kind |-> "atom", fmt |-> "pqr", chainflag |-> cf,
     serial |-> atom.serial, chain_id |-> atom.chain_id]

Atoms == [chain_id : ChainIds, serial : OldSerials]

AtomsIdle ==
    /\ atomlist = <<>>
    /\ serial_before = <<>>
    /\ chainflag = FALSE
    /\ pdbfile = FALSE
    /\ text = <<>>
    /\ currentchain_id = None
    /\ iatom = 0
    /\ pba_pc = "idle"

\* A faulty variant: the "no chain yet" test by truthiness instead of "is None".
LoopAtom_Truthy ==
    /\ pba_pc = "loop"
    /\ iatom < Len(atomlist)
    /\ LET atom == atomlist[iatom + 1]
           ter  == IF currentchain_id = None \/ currentchain_id = "" THEN <<>>
                   ELSE IF atom.chain_id # currentchain_id THEN << <<TER, NL>> >>
                   ELSE <<>>
           renum == [atom EXCEPT !.serial = iatom + 1]
           line == IF pdbfile THEN GetPdbString(renum) ELSE GetPqrString(renum, chainflag)
       IN  /\ currentchain_id' = atom.chain_id
           /\ atomlist' = [atomlist EXCEPT ![iatom + 1] = renum]
           /\ text' = text \o ter \o << <<line, NL>> >>
    /\ iatom' = iatom + 1
    /\ UNCHANGED <<serial_before, chainflag, pdbfile, pba_pc, hdrVars, dxVars, cubeVars,
                   readVars, filterVars, fileVars>>

\* A faulty variant: the serial is the 0-based enumerate() index.
LoopAtom_ZeroBased ==
    /\ pba_pc = "loop"
    /\ iatom < Len(atomlist)
    /\ LET atom == atomlist[iatom + 1]
           ter  == IF currentchain_id = None THEN <<>>
                   ELSE IF atom.chain_id # currentchain_id THEN << <<TER, NL>> >>
                   ELSE <<>>
           renum == [atom EXCEPT !.serial = iatom]
           line == IF pdbfile THEN GetPdbString(renum) ELSE GetPqrString(renum, chainflag)
       IN  /\ currentchain_id' = atom.chain_id
           /\ atomlist' = [atomlist EXCEPT ![iatom + 1] = renum]
           /\ text' = text \o ter \o << <<line, NL>> >>
    /\ iatom' = iatom + 1
    /\ UNCHANGED <<serial_before, chainflag, pdbfile, pba_pc, hdrVars, dxVars, cubeVars,
                   readVars, filterVars, fileVars>>

\* One iteration of the for loop (io.py 59-70).
LoopAtom ==
    /\ pba_pc = "loop"
    /\ iatom < Len(atomlist)
    /\ LET atom == atomlist[iatom + 1]
           \* 61-65: the "TER" record between chains
           ter  == IF currentchain_id = None THEN <<>>
                   ELSE IF atom.chain_id # currentchain_id THEN << <<TER, NL>> >>
                   ELSE <<>>
           \* 66: atom.serial = iatom + 1
           renum == [atom EXCEPT !.serial = iatom + 1]
           \* 67-70
           line == IF pdbfile THEN GetPdbString(renum) ELSE GetPqrString(renum, chainflag)
       IN  /\ currentchain_id' = atom.chain_id
           /\ atomlist' = [atomlist EXCEPT ![iatom + 1] = renum]
           /\ text' = text \o ter \o << <<line, NL>> >>
    /\ iatom' = iatom + 1
    /\ UNCHANGED <<serial_before, chainflag, pdbfile, pba_pc, hdrVars, dxVars, cubeVars,
                   readVars, filterVars, fileVars>>

\* After the loop (io.py 71-72): text.append("TER\nEND"); return text.
FinishAtoms ==
    /\ pba_pc = "loop"
    /\ iatom = Len(atomlist)
    /\ text' = Append(text, <<TER, NL, END>>)
    /\ pba_pc' = "done"
    /\ UNCHANGED <<atomlist, serial_before, chainflag, pdbfile, currentchain_id, iatom,
                   hdrVars, dxVars, cubeVars,
                   readVars, filterVars, fileVars>>

(***************************************************************************)
(* Reading the returned list as text.                                      *)
(***************************************************************************)
\* The lines of a token sequence: the runs between line breaks; what follows
\* the last line break is a line when it is not empty.
RECURSIVE SplitFrom(_, _)
SplitFrom(toks, cur) ==
    IF toks = <<>> THEN (IF cur = <<>> THEN <<>> ELSE <<cur>>)
    ELSE IF Head(toks) = NL THEN <<cur>> \o SplitFrom(Tail(toks), <<>>)
    ELSE SplitFrom(Tail(toks), Append(cur, Head(toks)))

SplitLines(toks) == SplitFrom(toks, <<>>)

\* The lines of the text obtained by writing the elements of text one after another.
TextLines == SplitLines(Flatten(text))

IsAtomLine(l) == Len(l) = 1 /\ l[1].kind = "atom"
IsTerLine(l) == l = <<TER>>
IsEndLine(l) == l = <<END>>

\* The position in lines L of the line of the k-th atom.
AtomLinePos(L, k) ==
    CHOOSE p \in DOMAIN L :
        /\ IsAtomLine(L[p])
        /\ Cardinality({q \in 1..p : IsAtomLine(L[q])}) = k

\* The number of maximal runs of equal chain identifier.
ChainRuns(al) ==
    Cardinality({k \in DOMAIN al : k = 1 \/ al[k].chain_id # al[k - 1].chain_id})

(***************************************************************************)
(* C1: in the text print_biomolecule_atoms returns, a TER line stands      *)
(* immediately before an atom's line exactly when the atom is not the      *)
(* first and its chain identifier differs from that of the atom before it  *)
(* (the empty identifier is an identifier like any other); so K maximal    *)
(* runs of equal chain identifier give K-1 intermediate TER lines (none    *)
(* for the empty list), and the text ends with exactly one TER/END pair.   *)
(***************************************************************************)
C1_TerAtChainTransitions ==
    pba_pc = "done" =>
        LET L == TextLines
            n == Len(atomlist)
        IN  /\ Cardinality({p \in DOMAIN L : IsAtomLine(L[p])}) = n
            /\ \A k \in 1..n :
                   LET p == AtomLinePos(L, k)
                   IN  /\ L[p][1].chain_id = atomlist[k].chain_id
                       /\ (p > 1 /\ IsTerLine(L[p - 1]))
                            <=> (k > 1 /\ atomlist[k].chain_id # atomlist[k - 1].chain_id)
            /\ Len(L) >= 2
            /\ IsTerLine(L[Len(L) - 1])
            /\ IsEndLine(L[Len(L)])
            /\ Cardinality({p \in DOMAIN L : IsEndLine(L[p])}) = 1
            /\ Cardinality({p \in DOMAIN L : IsTerLine(L[p])})
                   = Max(ChainRuns(atomlist) - 1, 0) + 1
            /\ Len(L) = n + Max(ChainRuns(atomlist) - 1, 0) + 2

\* Three atoms on chains "", "A", "A": a transition away from the empty
\* identifier, and a pair of neighbours on the same chain.
C1_Witness ==
    /\ pba_pc = "done"
    /\ Len(atomlist) = 3
    /\ atomlist[1].chain_id = ""
    /\ atomlist[2].chain_id = "A"
    /\ atomlist[3].chain_id = "A"

(***************************************************************************)
(* C2: when print_biomolecule_atoms has returned, the k-th atom of the     *)
(* list has serial k, whatever serial it had before, and the line printed  *)
(* for it carries that serial; the atoms already visited have it while the *)
(* loop runs.                                                              *)
(***************************************************************************)
C2_SerialsArePositions ==
    /\ pba_pc \in {"loop", "done"} =>
           \A k \in 1..iatom : atomlist[k].serial = k
    /\ pba_pc = "done" =>
           /\ iatom = Len(atomlist)
           /\ \A k \in 1..Len(atomlist) :
                  TextLines[AtomLinePos(TextLines, k)][1].serial = atomlist[k].serial

\* Two atoms on different chains that both came in with serial 7.
C2_Witness ==
    /\ pba_pc = "done"
    /\ Len(atomlist) = 2
    /\ serial_before = <<7, 7>>
    /\ atomlist[1].chain_id # atomlist[2].chain_id

(***************************************************************************)
(* C3: print_biomolecule_atoms returns one list element per text line: for *)
(* atoms on chains "A" then "B" (PQR lines, chainflag true) the list is    *)
(* the five elements atom line, TER, atom line, TER, END with serials 1    *)
(* and 2, and for every input the last two elements are TER and then END,  *)
(* END without a line break.                                               *)
(***************************************************************************)
C3_OneElementPerLine ==
    pba_pc = "done" =>
        /\ \A i \in DOMAIN text : Len(SplitLines(text[i])) = 1
        /\ Len(text) >= 2
        /\ SplitLines(text[Len(text) - 1]) = << <<TER>> >>
        /\ text[Len(text)] = <<END>>
        /\ (/\ Len(atomlist) = 2
            /\ atomlist[1].chain_id = "A"
            /\ atomlist[2].chain_id = "B"
            /\ ~pdbfile
            /\ chainflag)
              => /\ Len(text) = 5
                 /\ [i \in 1..5 |-> SplitLines(text[i])[1][1].kind]
                        = <<"atom", "TER", "atom", "TER", "END">>
                 /\ text[1][1].serial = 1
                 /\ text[3][1].serial = 2

(***************************************************************************)
(* print_pqr_header and print_pqr_header_cif                               *)
(*                                                                         *)
(* Every piece the two functions add to the header ends with a line break, *)
(* so the header is modelled as its sequence of lines.  A line is its      *)
(* literal text with the values formatted into it: a string s, a number n  *)
(* and an object obj (an atom, a residue or a record of the original file).*)
(***************************************************************************)
MaxWarn == 2

NoObj == [id |-> 0, name |-> ""]
HLine(rem, txt) == [rem |-> rem, txt |-> txt, s |-> "", n |-> 0, obj |-> NoObj]
HLineS(rem, txt, s) == [HLine(rem, txt) EXCEPT !.s = s]

\* config.TITLE_STR
TITLE_STR == "TITLE_STR"

\* str.upper() on the force-field names of the model.
Upper(str) ==
    CASE str = "amber" -> "AMBER"
      [] str = "parse" -> "PARSE"
      [] OTHER -> str

\* The record types get_old_header copies (io.py 84-97).
header_types ==
    {"HEADER", "TITLE", "COMPND", "SOURCE", "KEYWDS", "EXPDTA", "AUTHOR",
     "REVDAT", "JRNL", "REMARK", "SPRSDE", "NUMMDL"}

\* A variant that passes over a record that is no header record and goes
\* on with the next one.
RECURSIVE get_old_header_EveryHeaderRecord(_)
get_old_header_EveryHeaderRecord(pdblist) ==
    IF pdblist = <<>> THEN <<>>
    ELSE IF Head(pdblist).name \notin header_types
         THEN get_old_header_EveryHeaderRecord(Tail(pdblist))
    ELSE <<[HLine(0, "{str(pdb_obj)}") EXCEPT !.obj = Head(pdblist)]>>
             \o get_old_header_EveryHeaderRecord(Tail(pdblist))

\* get_old_header (io.py 75-103): str(pdb_obj) and a line break for each
\* record of the leading run of header records.
RECURSIVE get_old_header(_)
get_old_header(pdblist) ==
    IF pdblist = <<>> THEN <<>>
    ELSE IF Head(pdblist).name \notin header_types THEN <<>>
    ELSE <<[HLine(0, "{str(pdb_obj)}") EXCEPT !.obj = Head(pdblist)]>>
             \o get_old_header(Tail(pdblist))

\* io.py 138-141 and 243-246
ForceFieldLabel(force_field) ==
    IF force_field = None THEN "User force field" ELSE Upper(force_field)

\* io.py 142-153: the banner.  Line 153 is  head += head + "REMARK   1\n".
PqrBanner(a) ==
    LET head0 == <<HLine(1, "PQR file generated by PDB2PQR"),
                   HLine(1, TITLE_STR),
                   HLine(1, ""),
                   HLineS(1, "Forcefield Used: {force_field}", ForceFieldLabel(a.force_field))>>
        head1 == IF a.ffout # None
                 THEN Append(head0, HLineS(1, "Naming Scheme Used: {ffout}", a.ffout))
                 ELSE head0
    IN  head1 \o (head1 \o <<HLine(1, "")>>)

\* io.py 154-162
PqrPkaNote(a) ==
    IF a.ph_calc_method # None
    THEN <<[HLine(1, "pKas calculated by {ph_calc_method} and assigned using pH {ph:.2f}")
              EXCEPT !.s = a.ph_calc_method, !.n = a.ph],
           HLine(1, "")>>
    ELSE <<>>

PqrAtomLine(atom) ==
    [HLine(5, "   {atom.serial} {atom.name} in {atom.residue.name} {atom.residue.res_seq}")
       EXCEPT !.obj = atom]

\* io.py 163-186
PqrUnresolvedAtoms(atomlist_) ==
    IF Len(atomlist_) # 0
    THEN <<HLine(5, "WARNING: PDB2PQR was unable to assign charges"),
           HLine(5, "to the following atoms (omitted below):")>>
         \o [i \in 1..Len(atomlist_) |-> PqrAtomLine(atomlist_[i])]
         \o <<HLine(5, "This is usually due to the fact that this residue is not"),
              HLine(5, "an amino acid or nucleic acid; or, there are no parameters"),
              HLine(5, "available for the specific protonation state of this"),
              HLine(5, "residue in the selected forcefield."),
              HLine(5, "")>>
    ELSE <<>>

PqrResidueLine(residue) ==
    [HLine(5, "   {residue} - Residue Charge: {residue.charge:.4f}")
       EXCEPT !.obj = [id |-> residue.id, name |-> residue.name], !.n = residue.charge]

\* io.py 187-198
PqrNonIntegral(reslist) ==
    IF Len(reslist) # 0
    THEN <<HLine(5, "WARNING: Non-integral net charges were found in"),
           HLine(5, "the following residues:")>>
         \o [i \in 1..Len(reslist) |-> PqrResidueLine(reslist[i])]
         \o <<HLine(5, "")>>
    ELSE <<>>

\* io.py 199-205
PqrTotalCharge(a) ==
    <<[HLine(6, "Total charge on this biomolecule: {charge:.4f} e") EXCEPT !.n = a.charge],
      HLine(6, "")>>

\* io.py 206-210
PqrOldHeader(a) ==
    IF a.include_old_header
    THEN <<HLine(7, "Original PDB header follows"), HLine(7, "")>>
         \o get_old_header(a.pdblist)
    ELSE <<>>

\* print_pqr_header (io.py 106-211)
print_pqr_header(a) ==
    PqrBanner(a) \o PqrPkaNote(a) \o PqrUnresolvedAtoms(a.atomlist)
        \o PqrNonIntegral(a.reslist) \o PqrTotalCharge(a) \o PqrOldHeader(a)

\* io.py 248-268: the first text block, and the opening of the second.
CifBanner(a) ==
    <<HLine(0, "#"), HLine(0, "loop_"),
      HLine(0, "_pdbx_database_remark.id"), HLine(0, "_pdbx_database_remark.text"),
      HLine(0, "1"), HLine(0, ";"),
      HLine(0, "PQR file generated by PDB2PQR"), HLine(0, TITLE_STR), HLine(0, ""),
      HLineS(0, "Forcefield used: {force_field}", ForceFieldLabel(a.force_field))>>
    \o (IF a.ffout # None
        THEN <<HLineS(0, "Naming scheme used: {ffout}", a.ffout)>> ELSE <<>>)
    \o <<HLine(0, "")>>
    \o (IF a.ph_calc_method # None
        THEN <<[HLine(0, "pKas calculated by {ph_calc_method} and assigned using pH {ph:.2f}")
                  EXCEPT !.s = a.ph_calc_method, !.n = a.ph]>>
        ELSE <<>>)
    \o <<HLine(0, ";"), HLine(0, "2"), HLine(0, ";")>>

CifAtomLine(atom) ==
    [HLine(0, "   {atom.serial} {atom.name} in {atom.residue.name} {atom.residue.res_seq}")
       EXCEPT !.obj = atom]

\* A faulty variant: the block only for more than one atom.
CifUnresolvedAtoms_MoreThanOne(atomlist_) ==
    IF Len(atomlist_) > 1
    THEN <<HLine(0, "Warning: PDB2PQR was unable to assign charges"),
           HLine(0, "to the following atoms (omitted below):")>>
         \o [i \in 1..Len(atomlist_) |-> CifAtomLine(atomlist_[i])]
         \o <<HLine(0, "This is usually due to the fact that this residue is not"),
              HLine(0, "an amino acid or nucleic acid; or, there are no parameters"),
              HLine(0, "available for the specific protonation state of this"),
              HLine(0, "residue in the selected forcefield.")>>
    ELSE <<>>

\* io.py 269-288
CifUnresolvedAtoms(atomlist_) ==
    IF Len(atomlist_) > 0
    THEN <<HLine(0, "Warning: PDB2PQR was unable to assign charges"),
           HLine(0, "to the following atoms (omitted below):")>>
         \o [i \in 1..Len(atomlist_) |-> CifAtomLine(atomlist_[i])]
         \o <<HLine(0, "This is usually due to the fact that this residue is not"),
              HLine(0, "an amino acid or nucleic acid; or, there are no parameters"),
              HLine(0, "available for the specific protonation state of this"),
              HLine(0, "residue in the selected forcefield.")>>
    ELSE <<>>

CifResidueLine(residue) ==
    [HLine(0, "   {residue} - Residue Charge: {residue.charge:.4f}")
       EXCEPT !.obj = [id |-> residue.id, name |-> residue.name], !.n = residue.charge]

\* io.py 289-299
CifNonIntegral(reslist) ==
    IF Len(reslist) > 0
    THEN <<HLine(0, "Warning: Non-integral net charges were found in"),
           HLine(0, "the following residues:")>>
         \o [i \in 1..Len(reslist) |-> CifResidueLine(reslist[i])]
    ELSE <<>>

\* io.py 300-308
CifTotalCharge(a) ==
    <<HLine(0, ";"), HLine(0, "3"), HLine(0, ";"),
      [HLine(0, "Total charge on this biomolecule: {charge:.4f} e;") EXCEPT !.n = a.charge]>>

\* A faulty variant: the original header is passed through, as print_pqr_header does.
CifOldHeader_Passthrough(a) ==
    IF a.include_old_header
    THEN <<HLine(0, "Original PDB header follows")>> \o get_old_header(a.pdblist)
    ELSE <<>>

\* io.py 309-310: what the request for the original header adds to the text.
CifOldHeader(a) == <<>>

\* io.py 309-310: what it gives the logger.
CifOldHeaderLog(a) ==
    IF a.include_old_header
    THEN <<[levelname |-> "WARNING", msg |-> "Including original CIF header not implemented."]>>
    ELSE <<>>

\* io.py 311-327
CifAtomSite ==
    <<HLine(0, "#"), HLine(0, "loop_"),
      HLine(0, "_atom_site.group_PDB"), HLine(0, "_atom_site.id"),
      HLine(0, "_atom_site.label_atom_id"), HLine(0, "_atom_site.label_comp_id"),
      HLine(0, "_atom_site.label_seq_id"), HLine(0, "_atom_site.Cartn_x"),
      HLine(0, "_atom_site.Cartn_y"), HLine(0, "_atom_site.Cartn_z"),
      HLine(0, "_atom_site.pqr_partial_charge"), HLine(0, "_atom_site.pqr_radius")>>

\* print_pqr_header_cif (io.py 214-328): the text it returns.
print_pqr_header_cif(a) ==
    CifBanner(a) \o CifUnresolvedAtoms(a.atomlist) \o CifNonIntegral(a.reslist)
        \o CifTotalCharge(a) \o CifOldHeader(a) \o CifAtomSite

\* The inputs of the model.
FailedAtoms == {[id |-> 1, name |-> "N"], [id |-> 2, name |-> "CA"]}
Residues == {[id |-> 1, name |-> "ALA", charge |-> 5], [id |-> 2, name |-> "LIG", charge |-> -3]}
PdbRecord(name, id) == [id |-> id, name |-> name]
PdbLists ==
    {<<>>,
     <<PdbRecord("ATOM", 1)>>,
     <<PdbRecord("HEADER", 1), PdbRecord("REMARK", 2)>>,
     <<PdbRecord("HEADER", 1), PdbRecord("ATOM", 2), PdbRecord("REMARK", 3)>>,
     <<PdbRecord("REMARK", 1), PdbRecord("HEADER", 2), PdbRecord("ATOM", 3)>>}

HeaderArgs ==
    [pdblist : PdbLists,
     atomlist : SeqsUpTo(FailedAtoms, MaxWarn),
     reslist : SeqsUpTo(Residues, MaxWarn),
     charge : {-3},
     force_field : {None, "amber"},
     ph_calc_method : {None, "propka"},
     ph : {7},
     ffout : {None, "AMBER"},
     include_old_header : BOOLEAN]

NoArgs ==
    [pdblist |-> <<>>, atomlist |-> <<>>, reslist |-> <<>>, charge |-> 0,
     force_field |-> None, ph_calc_method |-> None, ph |-> 0, ffout |-> None,
     include_old_header |-> FALSE]

HdrIdle ==
    /\ hargs = NoArgs
    /\ head = <<>>
    /\ header = <<>>
    /\ returned = {"idle"}
    /\ log = <<>>

\* A call of print_pqr_header.
CallPrintPqrHeader ==
    /\ returned \subseteq {"print_pqr_header_cif"}
    /\ head' = print_pqr_header(hargs)
    /\ returned' = returned \cup {"print_pqr_header"}
    /\ UNCHANGED <<hargs, header, log, atomVars, dxVars, cubeVars,
                   readVars, filterVars, fileVars>>

\* A call of print_pqr_header_cif.
CallPrintPqrHeaderCif ==
    /\ returned \subseteq {"print_pqr_header"}
    /\ header' = print_pqr_header_cif(hargs)
    /\ log' = log \o CifOldHeaderLog(hargs)
    /\ returned' = returned \cup {"print_pqr_header_cif"}
    /\ UNCHANGED <<hargs, head, atomVars, dxVars, cubeVars,
                   readVars, filterVars, fileVars>>

(***************************************************************************)
(* Reading a header.                                                       *)
(***************************************************************************)
Count(h, txt) == Cardinality({p \in DOMAIN h : h[p].txt = txt})

AtomLineTxt == "   {atom.serial} {atom.name} in {atom.residue.name} {atom.residue.res_seq}"
ResidueLineTxt == "   {residue} - Residue Charge: {residue.charge:.4f}"
OldRecordTxt == "{str(pdb_obj)}"

\* The texts of the unresolved-atom block, in either dialect.
AtomBlockTexts ==
    {"WARNING: PDB2PQR was unable to assign charges",
     "Warning: PDB2PQR was unable to assign charges",
     "to the following atoms (omitted below):",
     AtomLineTxt,
     "This is usually due to the fact that this residue is not",
     "an amino acid or nucleic acid; or, there are no parameters",
     "available for the specific protonation state of this",
     "residue in the selected forcefield."}

\* The texts of the non-integral-charge block, in either dialect.
ResidueBlockTexts ==
    {"WARNING: Non-integral net charges were found in",
     "Warning: Non-integral net charges were found in",
     "the following residues:",
     ResidueLineTxt}

\* The section of the spec's list a line of print_pqr_header's text belongs
\* to; 0 for the bare "REMARK n" lines that separate the sections.
PqrSection(line) ==
    CASE line.txt \in {"PQR file generated by PDB2PQR", TITLE_STR,
                       "Forcefield Used: {force_field}",
                       "Naming Scheme Used: {ffout}"} -> 1
      [] line.txt = "pKas calculated by {ph_calc_method} and assigned using pH {ph:.2f}" -> 2
      [] line.txt \in AtomBlockTexts -> 3
      [] line.txt \in ResidueBlockTexts -> 4
      [] line.txt = "Total charge on this biomolecule: {charge:.4f} e" -> 5
      [] line.txt \in {"Original PDB header follows", OldRecordTxt} -> 6
      [] OTHER -> 0

\* The objects formatted into the lines of h whose text is txt, in order.
ObjectsOf(h, txt) ==
    LET sel == SelectSeq(h, LAMBDA l : l.txt = txt)
    IN  [i \in DOMAIN sel |-> sel[i].obj]

(***************************************************************************)
(* C4: the text print_pqr_header returns holds the sections in the order   *)
(* banner, pKa note, unresolved atoms, non-integral charges, total charge, *)
(* original header, and holds each of them at most once: in particular the *)
(* banner's lines (generator, title, force field, naming scheme) occur at  *)
(* most once each.                                                         *)
(***************************************************************************)
C4_SectionsOnceInOrder ==
    "print_pqr_header" \in returned =>
        LET secs == SelectSeq([p \in DOMAIN head |-> PqrSection(head[p])],
                              LAMBDA x : x # 0)
        IN  /\ \A p \in 1..(Len(secs) - 1) : secs[p] <= secs[p + 1]
            /\ \A txt \in {"PQR file generated by PDB2PQR", TITLE_STR,
                           "Forcefield Used: {force_field}",
                           "Naming Scheme Used: {ffout}",
                           "pKas calculated by {ph_calc_method} and assigned using pH {ph:.2f}",
                           "WARNING: PDB2PQR was unable to assign charges",
                           "WARNING: Non-integral net charges were found in",
                           "Total charge on this biomolecule: {charge:.4f} e",
                           "Original PDB header follows"} :
                   Count(head, txt) <= 1

(***************************************************************************)
(* C5: in the text of print_pqr_header and of print_pqr_header_cif, the    *)
(* unresolved-atom block is there exactly when the failed-atom list is not *)
(* empty, and then holds, right after its two opening lines, one line per  *)
(* atom in list order; the same for the non-integral-charge block and the  *)
(* residue list; with both lists empty no line of either block is there.   *)
(***************************************************************************)
BlockAsListed(h, opening, second, lineTxt, objs) ==
    /\ ObjectsOf(h, lineTxt) = objs
    /\ Count(h, opening) = (IF objs # <<>> THEN 1 ELSE 0)
    /\ objs # <<>> =>
           \E p \in DOMAIN h :
               /\ h[p].txt = opening
               /\ p + 1 + Len(objs) <= Len(h)
               /\ h[p + 1].txt = second
               /\ \A i \in DOMAIN objs :
                      /\ h[p + 1 + i].txt = lineTxt
                      /\ h[p + 1 + i].obj = objs[i]

C5_WarningBlocks ==
    LET atoms == hargs.atomlist
        residues == [i \in DOMAIN hargs.reslist |->
                        [id |-> hargs.reslist[i].id, name |-> hargs.reslist[i].name]]
        Blocks(h, atomOpening, residueOpening) ==
            /\ BlockAsListed(h, atomOpening,
                             "to the following atoms (omitted below):", AtomLineTxt, atoms)
            /\ BlockAsListed(h, residueOpening,
                             "the following residues:", ResidueLineTxt, residues)
            /\ atoms = <<>> => \A p \in DOMAIN h : h[p].txt \notin AtomBlockTexts
            /\ residues = <<>> => \A p \in DOMAIN h : h[p].txt \notin ResidueBlockTexts
            /\ (atoms = <<>> /\ residues = <<>>) => \A p \in DOMAIN h : h[p].rem # 5
    IN  /\ "print_pqr_header" \in returned =>
               Blocks(head, "WARNING: PDB2PQR was unable to assign charges",
                      "WARNING: Non-integral net charges were found in")
        /\ "print_pqr_header_cif" \in returned =>
               Blocks(header, "Warning: PDB2PQR was unable to assign charges",
                      "Warning: Non-integral net charges were found in")

\* Both functions have returned, for two different failed atoms and one residue.
C5_Witness ==
    /\ returned = {"print_pqr_header", "print_pqr_header_cif"}
    /\ Len(hargs.atomlist) = 2
    /\ hargs.atomlist[1] # hargs.atomlist[2]
    /\ Len(hargs.reslist) = 1

(***************************************************************************)
(* C6: print_pqr_header_cif called with include_old_header true returns,   *)
(* gives the logger exactly one record, the note that the original header  *)
(* is not included, and returns the text it returns for the same arguments *)
(* with include_old_header false: nothing of the original file is in it.   *)
(***************************************************************************)
C6_CifOldHeaderIsOnlyANote ==
    ("print_pqr_header_cif" \in returned /\ hargs.include_old_header) =>
        /\ log = <<[levelname |-> "WARNING",
                    msg |-> "Including original CIF header not implemented."]>>
        /\ header = print_pqr_header_cif([hargs EXCEPT !.include_old_header = FALSE])
        /\ \A p \in DOMAIN header : PqrSection(header[p]) # 6

\* The call was made with the flag set and an original file that has a header.
C6_Witness ==
    /\ "print_pqr_header_cif" \in returned
    /\ hargs.include_old_header
    /\ get_old_header(hargs.pdblist) # <<>>

(***************************************************************************)
(* read_dx                                                                 *)
(*                                                                         *)
(* The file is the sequence of its lines, a line the sequence of its       *)
(* tokens (what line.split() gives; an empty or blank line gives none).    *)
(* A float is modelled by its value in tenths.  dx_dict's None entries     *)
(* ("number of grid points", "lower left corner") are the empty tuple.     *)
(***************************************************************************)
MaxDxLines == 3

\* float(word): the tokens float() accepts, with their values (in tenths).
FloatToks == {"0", "1", "2", "3", "4", "5", "6", "7", "0.5"}
FloatVal(word) ==
    CASE word = "0" -> 0   [] word = "1" -> 10  [] word = "2" -> 20
      [] word = "3" -> 30  [] word = "4" -> 40  [] word = "5" -> 50
      [] word = "6" -> 60  [] word = "7" -> 70  [] word = "0.5" -> 5

\* int(word): the tokens int() accepts, with their values.
IntToks == {"0", "1", "2", "3", "4", "5", "6", "7"}
IntVal(word) == FloatVal(word) \div 10

\* Evaluating conv(words[i]) for the 0-based indices idx, in order, as the
\* list displays of io.py 603-615 do: the exception of the first one that
\* fails, "" when none does.
RECURSIVE FirstFailure(_, _, _)
FirstFailure(words, idx, ok) ==
    IF idx = <<>> THEN ""
    ELSE IF Head(idx) + 1 > Len(words) THEN "IndexError"
    ELSE IF words[Head(idx) + 1] \notin ok THEN "ValueError"
    ELSE FirstFailure(words, Tail(idx), ok)

\* The floats of the longest prefix of words that float() accepts.
RECURSIVE FloatsOfPrefix(_)
FloatsOfPrefix(words) ==
    IF words = <<>> \/ Head(words) \notin FloatToks THEN <<>>
    ELSE <<FloatVal(Head(words))>> \o FloatsOfPrefix(Tail(words))

\* The lines of the model's files.
DxLines ==
    {<<>>,
     <<"#", "Comment">>,
     <<"attribute", "dep", "positions">>,
     <<"component", "data", "3">>,
     <<"object", "1", "class", "gridpositions", "counts", "2", "2", "2">>,
     <<"object", "1", "class", "gridpositions", "counts", "2", "2">>,
     <<"object", "1", "class", "gridpositions", "counts", "2", "2", "0.5">>,
     <<"object">>,
     <<"object", "2", "class", "gridconnections", "counts", "3", "3", "3">>,
     <<"origin", "0", "1", "0.5">>,
     <<"origin", "0", "1">>,
     <<"delta", "0.5", "0", "0">>,
     <<"delta", "0", "0.5", "0">>,
     <<"delta", "0.5", "0">>,
     <<"1", "2", "3", "4">>,
     <<"5", "6", "7">>,
     <<"1", "x">>}

\* io.py 591-596
NewDxDict ==
    [grid_spacing |-> <<>>, values |-> <<>>, num_points |-> <<>>, origin |-> <<>>]

DxIdle ==
    /\ dx_file = <<>>
    /\ dx_dict = NewDxDict
    /\ dx_pos = 0
    /\ dx_state = "idle"

\* A variant of the loop body that takes the dimensions from every "object"
\* line, whatever its second token: the exception it
\* ends with ("" for none) and dx_dict after it.
DxLineEffect_AnyObject(words, d) ==
    IF Len(words) = 0 THEN [exc |-> "IndexError", dict |-> d]             \* words[0]
    ELSE IF words[1] \in {"#", "attribute", "component"} THEN [exc |-> "", dict |-> d]
    ELSE IF words[1] = "object" THEN
        IF Len(words) < 2 THEN [exc |-> "IndexError", dict |-> d]         \* words[1]
        ELSE IF words[2] \in {"1", "2"} THEN
            LET exc == FirstFailure(words, <<5, 6, 7>>, IntToks)
            IN  IF exc # "" THEN [exc |-> exc, dict |-> d]
                ELSE [exc |-> "",
                      dict |-> [d EXCEPT !.num_points =
                                   <<IntVal(words[6]), IntVal(words[7]), IntVal(words[8])>>]]
        ELSE [exc |-> "", dict |-> d]
    ELSE IF words[1] = "origin" THEN
        LET exc == FirstFailure(words, <<1, 2, 3>>, FloatToks)
        IN  IF exc # "" THEN [exc |-> exc, dict |-> d]
            ELSE [exc |-> "",
                  dict |-> [d EXCEPT !.origin =
                               <<FloatVal(words[2]), FloatVal(words[3]), FloatVal(words[4])>>]]
    ELSE IF words[1] = "delta" THEN
        LET exc == FirstFailure(words, <<1, 2, 3>>, FloatToks)
        IN  IF exc # "" THEN [exc |-> exc, dict |-> d]
            ELSE [exc |-> "",
                  dict |-> [d EXCEPT !.grid_spacing =
                               Append(@, <<FloatVal(words[2]), FloatVal(words[3]),
                                           FloatVal(words[4])>>)]]
    ELSE
        LET floats == FloatsOfPrefix(words)
        IN  [exc |-> IF Len(floats) < Len(words) THEN "ValueError" ELSE "",
             dict |-> [d EXCEPT !.values = @ \o floats]]

\* The body of the for loop for one line (io.py 598-619): the exception it
\* ends with ("" for none) and dx_dict after it.
DxLineEffect(words, d) ==
    IF Len(words) = 0 THEN [exc |-> "IndexError", dict |-> d]             \* words[0]
    ELSE IF words[1] \in {"#", "attribute", "component"} THEN [exc |-> "", dict |-> d]
    ELSE IF words[1] = "object" THEN
        IF Len(words) < 2 THEN [exc |-> "IndexError", dict |-> d]         \* words[1]
        ELSE IF words[2] = "1" THEN
            LET exc == FirstFailure(words, <<5, 6, 7>>, IntToks)
            IN  IF exc # "" THEN [exc |-> exc, dict |-> d]
                ELSE [exc |-> "",
                      dict |-> [d EXCEPT !.num_points =
                                   <<IntVal(words[6]), IntVal(words[7]), IntVal(words[8])>>]]
        ELSE [exc |-> "", dict |-> d]
    ELSE IF words[1] = "origin" THEN
        LET exc == FirstFailure(words, <<1, 2, 3>>, FloatToks)
        IN  IF exc # "" THEN [exc |-> exc, dict |-> d]
            ELSE [exc |-> "",
                  dict |-> [d EXCEPT !.origin =
                               <<FloatVal(words[2]), FloatVal(words[3]), FloatVal(words[4])>>]]
    ELSE IF words[1] = "delta" THEN
        LET exc == FirstFailure(words, <<1, 2, 3>>, FloatToks)
        IN  IF exc # "" THEN [exc |-> exc, dict |-> d]
            ELSE [exc |-> "",
                  dict |-> [d EXCEPT !.grid_spacing =
                               Append(@, <<FloatVal(words[2]), FloatVal(words[3]),
                                           FloatVal(words[4])>>)]]
    ELSE
        LET floats == FloatsOfPrefix(words)
        IN  [exc |-> IF Len(floats) < Len(words) THEN "ValueError" ELSE "",
             dict |-> [d EXCEPT !.values = @ \o floats]]

\* One iteration of  for line in dx_file  (io.py 597-619).
DxReadLine ==
    /\ dx_state = "reading"
    /\ dx_pos < Len(dx_file)
    /\ LET eff == DxLineEffect(dx_file[dx_pos + 1], dx_dict)
       IN  /\ dx_dict' = eff.dict
           /\ dx_state' = IF eff.exc # "" THEN eff.exc ELSE "reading"
    /\ dx_pos' = dx_pos + 1
    /\ UNCHANGED <<dx_file, atomVars, hdrVars, cubeVars,
                   readVars, filterVars, fileVars>>

\* A variant: the reader with a check of the value count on return.
DxReturn_CountChecked ==
    /\ dx_state = "reading"
    /\ dx_pos = Len(dx_file)
    /\ dx_state' =
           IF /\ dx_dict.num_points # <<>>
              /\ Len(dx_dict.values) #
                     dx_dict.num_points[1] * dx_dict.num_points[2] * dx_dict.num_points[3]
           THEN "ValueError" ELSE "returned"
    /\ UNCHANGED <<dx_file, dx_dict, dx_pos, atomVars, hdrVars, cubeVars,
                   readVars, filterVars, fileVars>>

\* The file is exhausted: return dx_dict (io.py 620).
DxReturn ==
    /\ dx_state = "reading"
    /\ dx_pos = Len(dx_file)
    /\ dx_state' = "returned"
    /\ UNCHANGED <<dx_file, dx_dict, dx_pos, atomVars, hdrVars, cubeVars,
                   readVars, filterVars, fileVars>>

(***************************************************************************)
(* Reading a DX file as the claims do.                                     *)
(***************************************************************************)
DxDirectives == {"#", "attribute", "component", "object", "origin", "delta"}

\* A line that is not empty and whose first token is no directive.
IsValueLine(words) == words # <<>> /\ words[1] \notin DxDirectives

\* The number of tokens on the value lines of a file.
RECURSIVE ValueTokenCount(_)
ValueTokenCount(file) ==
    IF file = <<>> THEN 0
    ELSE (IF IsValueLine(Head(file)) THEN Len(Head(file)) ELSE 0)
             + ValueTokenCount(Tail(file))

\* The structural parse errors: an origin or delta line with fewer than
\* three value tokens, an "object 1" line with fewer than eight tokens, a
\* value token that is no float.
StructurallyBad(words) ==
    /\ words # <<>>
    /\ \/ words[1] \in {"origin", "delta"} /\ Len(words) < 4
       \/ words[1] = "object" /\ Len(words) >= 2 /\ words[2] = "1" /\ Len(words) < 8
       \/ IsValueLine(words) /\ \E j \in DOMAIN words : words[j] \notin FloatToks

\* A line the reader takes without an exception: it is not empty, a directive
\* has the tokens it is read for, and they and the value tokens convert.
LineParses(words) ==
    /\ words # <<>>
    /\ words[1] = "object" =>
           /\ Len(words) >= 2
           /\ words[2] = "1" =>
                  Len(words) >= 8 /\ \A j \in 6..8 : words[j] \in IntToks
    /\ words[1] \in {"origin", "delta"} =>
           Len(words) >= 4 /\ \A j \in 2..4 : words[j] \in FloatToks
    /\ IsValueLine(words) => \A j \in DOMAIN words : words[j] \in FloatToks

\* The dimensions read so far multiply to the number of values read so far.
CountMatchesDimensions(d) ==
    Len(d.values) = d.num_points[1] * d.num_points[2] * d.num_points[3]

(***************************************************************************)
(* C7 as claimed: read_dx returns a grid only when the number of value     *)
(* tokens equals nx*ny*nz for the dimensions the file declares; a file     *)
(* declaring (2,2,2) with 7 value tokens is rejected.                      *)
(***************************************************************************)
C7_ReturnsOnlyFullGrids ==
    (dx_state = "returned" /\ dx_dict.num_points # <<>>) => CountMatchesDimensions(dx_dict)

(***************************************************************************)
(* C7 as amended: read_dx does not compare the number of value tokens with *)
(* the declared dimensions.  The grid it returns holds one value per value *)
(* token of the file, whatever the dimensions: 8 values for 8 tokens under *)
(* (2,2,2), and 7 values for 7 tokens, which is returned and not rejected  *)
(* (a file whose every line parses never raises).                          *)
(***************************************************************************)
C7_ReturnsTheTokensRead ==
    /\ dx_state = "returned" => Len(dx_dict.values) = ValueTokenCount(dx_file)
    /\ (\A i \in DOMAIN dx_file : LineParses(dx_file[i]))
         => dx_state \in {"reading", "returned"}

\* A grid of 7 values has been returned for a file that declares (2,2,2).
C7_Witness ==
    /\ dx_state = "returned"
    /\ dx_dict.num_points = <<2, 2, 2>>
    /\ Len(dx_dict.values) = 7

(***************************************************************************)
(* C8: a structural parse error (an origin or delta line with fewer than   *)
(* three value tokens, an "object 1" line with fewer than eight tokens, a  *)
(* value token that is no float) ends the read with ValueError: once such  *)
(* a line has been consumed, read_dx has raised ValueError, and so returns *)
(* no grid.                                                                *)
(***************************************************************************)
C8_ParseErrorsRaiseValueError ==
    (\E i \in 1..dx_pos : StructurallyBad(dx_file[i])) => dx_state = "ValueError"

(***************************************************************************)
(* C9: the values read_dx returns are the tokens, as floats and in file    *)
(* order, of the lines that are not empty and do not start with a          *)
(* directive; any other line (an empty line, a directive line that         *)
(* parses) adds no value and does not stop the read.                       *)
(***************************************************************************)
C9_ValuesAreTheValueLines ==
    /\ dx_state = "returned" =>
           dx_dict.values =
               Flatten([i \in DOMAIN dx_file |->
                           IF IsValueLine(dx_file[i])
                           THEN [j \in DOMAIN dx_file[i] |-> FloatVal(dx_file[i][j])]
                           ELSE <<>>])
    /\ (/\ dx_pos > 0
        /\ \/ dx_file[dx_pos] = <<>>
           \/ ~IsValueLine(dx_file[dx_pos]) /\ LineParses(dx_file[dx_pos]))
         => dx_state \in {"reading", "returned"}

(***************************************************************************)
(* write_cube                                                              *)
(*                                                                         *)
(* cube_file is the sequence of the strings given to cube_file.write, a    *)
(* string the sequence of its tokens: a formatted number, a literal, a     *)
(* space, a line break.  data_dict is a complete grid (an origin, three    *)
(* spacing rows, the dimensions), as read_dx gives for a complete file.    *)
(***************************************************************************)
MaxValues == 12

CTok(t, s, v) == [t |-> t, s |-> s, v |-> v]
CNL == CTok("nl", "\n", 0)
CSP == CTok("sp", " ", 0)
\* A literal piece of text.
CLit(s) == CTok("lit", s, 0)
\* f"{v:fmt}"
CNum(fmt, v) == CTok("num", fmt, v)

\* sep.join(words)
RECURSIVE Join(_, _)
Join(sep, words) ==
    IF words = <<>> THEN <<>>
    ELSE IF Len(words) = 1 THEN <<words[1]>>
    ELSE <<Head(words), sep>> \o Join(sep, Tail(words))

\* values[lo:hi], Python's slice of 0-based indices lo <= i < hi.
Slice(values, lo, hi) ==
    IF lo >= Len(values) THEN <<>>
    ELSE SubSeq(values, lo + 1, IF hi < Len(values) THEN hi ELSE Len(values))

\* io.py 661
stride == 6

\* The inputs of the model.
CubeAtoms ==
    <<[serial |-> 1, charge |-> -5, x |-> 0, y |-> 10, z |-> 20],
      [serial |-> 2, charge |-> 5, x |-> 30, y |-> 0, z |-> 10]>>
CubeGrids ==
    [origin : {<<0, 10, 5>>},
     num_points : {<<2, 3, 2>>},
     grid_spacing : {<< <<5, 0, 0>>, <<0, 10, 0>>, <<0, 0, 20>> >>},
     values : SeqsUpTo({0, 5}, MaxValues)]
CubeArgs ==
    [comment : {"CPMD CUBE FILE."},
     data_dict : CubeGrids,
     atom_list : {SubSeq(CubeAtoms, 1, n) : n \in 0..Len(CubeAtoms)}]

NoCubeArgs ==
    [comment |-> "",
     data_dict |-> [origin |-> <<>>, num_points |-> <<>>, grid_spacing |-> <<>>,
                    values |-> <<>>],
     atom_list |-> <<>>]

CubeIdle ==
    /\ cube_args = NoCubeArgs
    /\ cube_file = <<>>
    /\ cube_i = 0
    /\ cube_pc = "idle"

\* A faulty variant: the point count of the axis is written as it is.
CubeAxisLine_NotNegated(num_points, spacings, i) ==
    <<CNum(">4", num_points[i + 1]), CSP,
      CNum(">11.6f", spacings[i + 1][1]), CSP,
      CNum(">11.6f", spacings[i + 1][2]), CSP,
      CNum(">11.6f", spacings[i + 1][3]), CNL>>

\* io.py 649-655: the line of axis i (0-based).
CubeAxisLine(num_points, spacings, i) ==
    <<CNum(">4", -num_points[i + 1]), CSP,
      CNum(">11.6f", spacings[i + 1][1]), CSP,
      CNum(">11.6f", spacings[i + 1][2]), CSP,
      CNum(">11.6f", spacings[i + 1][3]), CNL>>

\* io.py 656-660: the line of an atom.
CubeAtomLine(atom) ==
    <<CNum(">4", atom.serial), CSP, CNum(">11.6f", atom.charge), CSP,
      CNum(">11.6f", atom.x), CSP, CNum(">11.6f", atom.y), CSP,
      CNum(">11.6f", atom.z), CNL>>

\* io.py 639-660: everything written before the values.
WriteCubeHeader ==
    /\ cube_pc = "start"
    /\ LET origin == cube_args.data_dict.origin
           num_points == cube_args.data_dict.num_points
           spacings == cube_args.data_dict.grid_spacing
           atom_list == cube_args.atom_list
       IN  cube_file' = cube_file
               \o << <<CLit(cube_args.comment), CNL>>,
                     <<CLit("OUTER LOOP: X, MIDDLE LOOP: Y, INNER LOOP: Z"), CNL>>,
                     <<CNum(">4", Len(atom_list)), CSP, CNum(">11.6f", origin[1]), CSP,
                       CNum(">11.6f", origin[2]), CSP, CNum(">11.6f", origin[3]), CNL>> >>
               \o [i \in 1..3 |-> CubeAxisLine(num_points, spacings, i - 1)]
               \o [k \in 1..Len(atom_list) |-> CubeAtomLine(atom_list[k])]
    /\ cube_i' = 0
    /\ cube_pc' = "values"
    /\ UNCHANGED <<cube_args, atomVars, hdrVars, dxVars,
                   readVars, filterVars, fileVars>>

\* A faulty variant: the full-row test with <= in place of <.
WriteCubeRow_FullRowInclusive ==
    /\ cube_pc = "values"
    /\ cube_i < Len(cube_args.data_dict.values)
    /\ LET values == cube_args.data_dict.values
           i == cube_i
       IN  IF i + stride <= Len(values)
           THEN LET imax == i + 6
                    words == [k \in 1..Len(Slice(values, i, imax)) |->
                                 CNum("< 13.5E", Slice(values, i, imax)[k])]
                IN  cube_file' = Append(cube_file, Join(CSP, words) \o <<CNL>>)
           ELSE LET words == [k \in 1..Len(Slice(values, i, Len(values))) |->
                                 CNum("< 13.5E", Slice(values, i, Len(values))[k])]
                IN  cube_file' = Append(cube_file, Join(CSP, words))
    /\ cube_i' = cube_i + 6
    /\ UNCHANGED <<cube_args, cube_pc, atomVars, hdrVars, dxVars,
                   readVars, filterVars, fileVars>>

\* One iteration of  for i in range(0, len(values), 6)  (io.py 663-670).
WriteCubeRow ==
    /\ cube_pc = "values"
    /\ cube_i < Len(cube_args.data_dict.values)
    /\ LET values == cube_args.data_dict.values
           i == cube_i
       IN  IF i + stride < Len(values)
           THEN LET imax == i + 6
                    words == [k \in 1..Len(Slice(values, i, imax)) |->
                                 CNum("< 13.5E", Slice(values, i, imax)[k])]
                IN  cube_file' = Append(cube_file, Join(CSP, words) \o <<CNL>>)
           ELSE LET words == [k \in 1..Len(Slice(values, i, Len(values))) |->
                                 CNum("< 13.5E", Slice(values, i, Len(values))[k])]
                IN  cube_file' = Append(cube_file, Join(CSP, words))
    /\ cube_i' = cube_i + 6
    /\ UNCHANGED <<cube_args, cube_pc, atomVars, hdrVars, dxVars,
                   readVars, filterVars, fileVars>>

\* range() is exhausted: write_cube returns.
WriteCubeDone ==
    /\ cube_pc = "values"
    /\ cube_i >= Len(cube_args.data_dict.values)
    /\ cube_pc' = "done"
    /\ UNCHANGED <<cube_args, cube_file, cube_i, atomVars, hdrVars, dxVars,
                   readVars, filterVars, fileVars>>

(***************************************************************************)
(* Reading the Cube file.                                                  *)
(***************************************************************************)
\* The text written, as tokens.
CubeText == Flatten(cube_file)

\* The text cut at its line breaks: every piece but the last was ended by a
\* line break; the last is what follows the last line break (empty when the
\* text ends with one).
RECURSIVE CutAtBreaks(_, _)
CutAtBreaks(toks, cur) ==
    IF toks = <<>> THEN <<cur>>
    ELSE IF Head(toks) = CNL THEN <<cur>> \o CutAtBreaks(Tail(toks), <<>>)
    ELSE CutAtBreaks(Tail(toks), Append(cur, Head(toks)))

\* The pieces after the lines that precede the values: the comment, the
\* axis-order literal, the origin line, three axis lines, one line per atom.
CubeValuePieces ==
    LET pieces == CutAtBreaks(CubeText, <<>>)
        before == 6 + Len(cube_args.atom_list)
    IN  SubSeq(pieces, before + 1, Len(pieces))

\* A row of m values in the values' format, joined by single spaces.
IsValueRow(row, m) ==
    /\ Len(row) = 2 * m - 1
    /\ \A j \in DOMAIN row :
           IF j % 2 = 1 THEN row[j].t = "num" /\ row[j].s = "< 13.5E"
           ELSE row[j] = CSP

(***************************************************************************)
(* C10: write_cube writes N values as ceil(N/6) rows (none for N = 0):     *)
(* every row but the last holds exactly 6 formatted values joined by       *)
(* single spaces and is ended by a line break, the last row holds the      *)
(* remaining 1 to 6 values and no line break follows it, also when N is a  *)
(* multiple of 6.                                                          *)
(***************************************************************************)
C10_ValueRows ==
    cube_pc = "done" =>
        LET N == Len(cube_args.data_dict.values)
            rows == (N + 5) \div 6
            pieces == CubeValuePieces
        IN  IF N = 0
            THEN pieces = << <<>> >>
            ELSE /\ Len(pieces) = rows
                 /\ \A r \in 1..(rows - 1) : IsValueRow(pieces[r], 6)
                 /\ N - 6 * (rows - 1) \in 1..6
                 /\ IsValueRow(pieces[rows], N - 6 * (rows - 1))

\* Twelve values have been written: two rows, the last one full.
C10_Witness ==
    /\ cube_pc = "done"
    /\ Len(cube_args.data_dict.values) = 12
    /\ Len(cube_args.atom_list) = 1

\* The numbers formatted into a piece of text, in order.
NumbersOf(piece) ==
    LET nums == SelectSeq(piece, LAMBDA tok : tok.t = "num")
    IN  [j \in DOMAIN nums |-> nums[j].v]

(***************************************************************************)
(* C11: write_cube writes its lines in the order comment, axis-order       *)
(* literal, atom count with the origin, three axis lines, one line per     *)
(* atom in list order, value rows; axis line i holds the negated point     *)
(* count of axis i and spacing row i; the values stand in the value rows   *)
(* in the order of the grid's value buffer, each once.                     *)
(***************************************************************************)
C11_CubeLayout ==
    cube_pc = "done" =>
        LET grid == cube_args.data_dict
            atoms == cube_args.atom_list
            pieces == CutAtBreaks(CubeText, <<>>)
        IN  /\ Len(pieces) >= 7 + Len(atoms)
            /\ pieces[1] = <<CLit(cube_args.comment)>>
            /\ pieces[2] = <<CLit("OUTER LOOP: X, MIDDLE LOOP: Y, INNER LOOP: Z")>>
            /\ NumbersOf(pieces[3]) = <<Len(atoms)>> \o grid.origin
            /\ \A i \in 1..3 :
                   NumbersOf(pieces[3 + i]) = <<-grid.num_points[i]>> \o grid.grid_spacing[i]
            /\ \A k \in DOMAIN atoms :
                   NumbersOf(pieces[6 + k]) =
                       <<atoms[k].serial, atoms[k].charge, atoms[k].x, atoms[k].y, atoms[k].z>>
            /\ Flatten([r \in DOMAIN CubeValuePieces |-> NumbersOf(CubeValuePieces[r])])
                   = grid.values

\* Two atoms and eight values that are not all the same have been written.
C11_Witness ==
    /\ cube_pc = "done"
    /\ Len(cube_args.atom_list) = 2
    /\ Len(cube_args.data_dict.values) = 8
    /\ cube_args.data_dict.values[1] # cube_args.data_dict.values[2]
    /\ cube_args.data_dict.values[7] # cube_args.data_dict.values[8]

(***************************************************************************)
(* read_pqr and read_qcd                                                   *)
(*                                                                         *)
(* Both loop over the lines of a file and hand each line to a line parser  *)
(* of the Atom class (Atom.from_pqr_line, Atom.from_qcd_line). The parsers *)
(* are not part of io.py; a line is modelled by what its parser makes of   *)
(* it: an atom line yields a record, any other record type yields None,    *)
(* and an atom line with a field that is not a number makes the parser     *)
(* raise.                                                                  *)
(***************************************************************************)
MaxReadLines == 3

ReadLine(kind, name, serial) == [kind |-> kind, name |-> name, serial |-> serial]

ReadLines ==
    { ReadLine("atom", "N", 5), ReadLine("atom", "CA", 5),
      ReadLine("other", "REMARK", 0), ReadLine("other", "TER", 0),
      ReadLine("bad", "ATOM", 0) }

NoAtom == [name |-> "", serial |-> 0]

\* What a line parser gives back: the exception it raised (None if it
\* returned), whether it returned None, and the atom it returned otherwise.
ParserResult(exc, is_none, atom) == [exc |-> exc, is_none |-> is_none, atom |-> atom]

\* The serial of a PQR atom is a field of the line.
from_pqr_line(line) ==
    CASE line.kind = "bad" -> ParserResult("ParseError", FALSE, NoAtom)
      [] line.kind = "other" -> ParserResult(None, TRUE, NoAtom)
      [] OTHER -> ParserResult(None, FALSE, [name |-> line.name, serial |-> line.serial])

\* A QCD line has no serial field: the atom gets the serial it is handed.
from_qcd_line(line, serial) ==
    CASE line.kind = "bad" -> ParserResult("ParseError", FALSE, NoAtom)
      [] line.kind = "other" -> ParserResult(None, TRUE, NoAtom)
      [] OTHER -> ParserResult(None, FALSE, [name |-> line.name, serial |-> serial])

ReadIdle ==
    /\ rd_fn = "idle"
    /\ rd_file = <<>>
    /\ rd_atoms = <<>>
    /\ atom_serial = 1
    /\ rd_pos = 0
    /\ rd_state = "idle"

\* A variant of the read_pqr loop that catches the parser's exception and
\* goes on with the next line.
ReadPqrLine_SkipOnError ==
    /\ rd_fn = "read_pqr"
    /\ rd_state = "reading"
    /\ rd_pos < Len(rd_file)
    /\ LET r == from_pqr_line(rd_file[rd_pos + 1])
       IN  rd_atoms' = IF r.exc # None \/ r.is_none THEN rd_atoms ELSE Append(rd_atoms, r.atom)
    /\ rd_pos' = rd_pos + 1
    /\ UNCHANGED <<rd_fn, rd_file, atom_serial, rd_state,
                   atomVars, hdrVars, dxVars, cubeVars, filterVars, fileVars>>

\* One iteration of "for line in pqr_file". The loop has no exception
\* handler: what the parser raises leaves read_pqr.
ReadPqrLine ==
    /\ rd_fn = "read_pqr"
    /\ rd_state = "reading"
    /\ rd_pos < Len(rd_file)
    /\ LET r == from_pqr_line(rd_file[rd_pos + 1])
       IN  IF r.exc # None
           THEN /\ rd_state' = r.exc
                /\ UNCHANGED rd_atoms
           ELSE /\ rd_atoms' = IF r.is_none THEN rd_atoms ELSE Append(rd_atoms, r.atom)
                /\ UNCHANGED rd_state
    /\ rd_pos' = rd_pos + 1
    /\ UNCHANGED <<rd_fn, rd_file, atom_serial,
                   atomVars, hdrVars, dxVars, cubeVars, filterVars, fileVars>>

ReadPqrReturn ==
    /\ rd_fn = "read_pqr"
    /\ rd_state = "reading"
    /\ rd_pos = Len(rd_file)
    /\ rd_state' = "returned"
    /\ UNCHANGED <<rd_fn, rd_file, rd_atoms, atom_serial, rd_pos,
                   atomVars, hdrVars, dxVars, cubeVars, filterVars, fileVars>>

\* A variant of the read_qcd loop that counts every line.
ReadQcdLine_CountEveryLine ==
    /\ rd_fn = "read_qcd"
    /\ rd_state = "reading"
    /\ rd_pos < Len(rd_file)
    /\ LET r == from_qcd_line(rd_file[rd_pos + 1], atom_serial)
       IN  IF r.exc # None
           THEN /\ rd_state' = r.exc
                /\ UNCHANGED <<rd_atoms, atom_serial>>
           ELSE /\ rd_atoms' = IF r.is_none THEN rd_atoms ELSE Append(rd_atoms, r.atom)
                /\ atom_serial' = atom_serial + 1
                /\ UNCHANGED rd_state
    /\ rd_pos' = rd_pos + 1
    /\ UNCHANGED <<rd_fn, rd_file,
                   atomVars, hdrVars, dxVars, cubeVars, filterVars, fileVars>>

\* One iteration of "for line in qcd_file".
ReadQcdLine ==
    /\ rd_fn = "read_qcd"
    /\ rd_state = "reading"
    /\ rd_pos < Len(rd_file)
    /\ LET r == from_qcd_line(rd_file[rd_pos + 1], atom_serial)
       IN  IF r.exc # None
           THEN /\ rd_state' = r.exc
                /\ UNCHANGED <<rd_atoms, atom_serial>>
           ELSE IF r.is_none
                THEN UNCHANGED <<rd_atoms, atom_serial, rd_state>>
                ELSE /\ rd_atoms' = Append(rd_atoms, r.atom)
                     /\ atom_serial' = atom_serial + 1
                     /\ UNCHANGED rd_state
    /\ rd_pos' = rd_pos + 1
    /\ UNCHANGED <<rd_fn, rd_file,
                   atomVars, hdrVars, dxVars, cubeVars, filterVars, fileVars>>

ReadQcdReturn ==
    /\ rd_fn = "read_qcd"
    /\ rd_state = "reading"
    /\ rd_pos = Len(rd_file)
    /\ rd_state' = "returned"
    /\ UNCHANGED <<rd_fn, rd_file, rd_atoms, atom_serial, rd_pos,
                   atomVars, hdrVars, dxVars, cubeVars, filterVars, fileVars>>

(***************************************************************************)
(* Reading the two readers' state.                                         *)
(***************************************************************************)
AtomNames(lines) ==
    LET atom_lines == SelectSeq(lines, LAMBDA line : line.kind = "atom")
    IN  [k \in DOMAIN atom_lines |-> atom_lines[k].name]

GoodLines(lines) == SelectSeq(lines, LAMBDA line : line.kind # "bad")

NamesRead == [k \in DOMAIN rd_atoms |-> rd_atoms[k].name]

LinesConsumed == SubSeq(rd_file, 1, rd_pos)

ReadIsOver == rd_state \notin {"idle", "reading"}

(***************************************************************************)
(* C12, as stated: a failure of the line parser on one line does not abort *)
(* the read. Whatever the lines are, read_pqr and read_qcd end by          *)
(* returning, and the list returned holds the records of the lines that    *)
(* parse, in file order.                                                   *)
(***************************************************************************)
C12_ParseErrorDoesNotAbort ==
    ReadIsOver =>
        /\ rd_state = "returned"
        /\ NamesRead = AtomNames(GoodLines(rd_file))

(***************************************************************************)
(* C12, as the code has it: the first line on which the parser raises ends *)
(* the read with that exception, and no list is returned; the lines after  *)
(* it are never read. A list is returned exactly when the parser raises on *)
(* no line, and it then holds the records of the atom lines in file order; *)
(* the lines for which the parser returns None are passed over without a   *)
(* failure.                                                                *)
(***************************************************************************)
C12_ParseErrorAbortsRead ==
    /\ rd_state = "ParseError" <=> (rd_pos > 0 /\ rd_file[rd_pos].kind = "bad")
    /\ \A i \in 1..(rd_pos - 1) : rd_file[i].kind # "bad"
    /\ rd_state = "returned" =>
           /\ rd_pos = Len(rd_file)
           /\ NamesRead = AtomNames(rd_file)
    /\ rd_state \in {"reading", "ParseError"} =>
           NamesRead = AtomNames(GoodLines(LinesConsumed))

\* A non-atom line and an atom line were read, then the parser raised on the
\* third line: the atom already parsed is not delivered.
C12_Witness ==
    /\ rd_state = "ParseError"
    /\ rd_pos = 3
    /\ rd_file[1].kind = "other"
    /\ Len(rd_atoms) = 1

(***************************************************************************)
(* C13: in read_qcd the i-th atom of the list was parsed with serial       *)
(* argument i, whatever non-atom lines lie between the atom lines, and the *)
(* running serial is one more than the number of atoms read so far.        *)
(***************************************************************************)
C13_QcdSerialsCountAtoms ==
    rd_fn = "read_qcd" =>
        /\ \A i \in DOMAIN rd_atoms : rd_atoms[i].serial = i
        /\ atom_serial = Len(rd_atoms) + 1

\* read_qcd has returned two atoms that had a non-atom line between them.
C13_Witness ==
    /\ rd_fn = "read_qcd"
    /\ rd_state = "returned"
    /\ Len(rd_file) = 3
    /\ rd_file[2].kind = "other"
    /\ Len(rd_atoms) = 2

(***************************************************************************)
(* Reading a DX file line by line.                                         *)
(***************************************************************************)
\* The lines that have been read without an exception.
DxLinesDone ==
    SubSeq(dx_file, 1, IF dx_state \in {"reading", "returned"} THEN dx_pos ELSE dx_pos - 1)

FirstTokenIs(words, token) == words # <<>> /\ words[1] = token

\* The "object" lines whose second token is "1".
IsObjectOne(words) == Len(words) >= 2 /\ words[1] = "object" /\ words[2] = "1"

\* The three floats a token sequence gives from 1-based position p on.
ThreeFloats(words, p) == <<FloatVal(words[p]), FloatVal(words[p + 1]), FloatVal(words[p + 2])>>

(***************************************************************************)
(* C14: after the lines read so far, the dimensions are the tokens 6, 7, 8 *)
(* of the last line "object 1 ..." among them (and are unset if there is   *)
(* none), and the spacing rows are the "delta" lines among them, one row   *)
(* each, in file order; the origin is that of the last "origin" line and   *)
(* the values are the tokens of the value lines.  So an "object" line      *)
(* whose second token is not "1" changes none of the four.  The line on    *)
(* which the read fails is not among the lines read; it sets no dimensions *)
(* and appends no spacing row.                                             *)
(***************************************************************************)
C14_ObjectAndDeltaLines ==
    LET lines == DxLinesDone
        ones == SelectSeq(lines, IsObjectOne)
        origins == SelectSeq(lines, LAMBDA w : FirstTokenIs(w, "origin"))
        deltas == SelectSeq(lines, LAMBDA w : FirstTokenIs(w, "delta"))
        rows == SelectSeq(lines, IsValueLine)
    IN  /\ dx_dict.num_points =
               IF ones = <<>> THEN <<>>
               ELSE LET w == ones[Len(ones)]
                    IN  <<IntVal(w[6]), IntVal(w[7]), IntVal(w[8])>>
        /\ dx_dict.grid_spacing = [k \in DOMAIN deltas |-> ThreeFloats(deltas[k], 2)]
        /\ dx_dict.origin =
               IF origins = <<>> THEN <<>> ELSE ThreeFloats(origins[Len(origins)], 2)
        /\ dx_state \in {"reading", "returned"} =>
               dx_dict.values = Flatten([k \in DOMAIN rows |->
                                            [j \in DOMAIN rows[k] |-> FloatVal(rows[k][j])]])

\* An "object 1" line, then another "object" line with other counts, then a
\* "delta" line: the dimensions are those of the first line.
C14_Witness ==
    /\ dx_state = "returned"
    /\ Len(dx_file) = 3
    /\ IsObjectOne(dx_file[1])
    /\ FirstTokenIs(dx_file[2], "object") /\ Len(dx_file[2]) = 8 /\ dx_file[2][2] = "2"
    /\ FirstTokenIs(dx_file[3], "delta")
    /\ dx_dict.num_points = <<2, 2, 2>>
    /\ Len(dx_dict.grid_spacing) = 1

(***************************************************************************)
(* Reading the original-header section of a header.                        *)
(***************************************************************************)
\* The longest leading run of header records of a list.
LeadingHeaderRun(pdblist) ==
    LET others == {i \in DOMAIN pdblist : pdblist[i].name \notin header_types}
        n == IF others = {} THEN Len(pdblist)
             ELSE (CHOOSE i \in others : \A j \in others : i <= j) - 1
    IN  SubSeq(pdblist, 1, n)

(***************************************************************************)
(* C15: the text print_pqr_header returns has the original-header section  *)
(* if and only if include_old_header is set.  The section is the two       *)
(* REMARK 7 lines followed by the copied block, and the copied block is    *)
(* the longest leading run of header records of pdblist, in order, one per *)
(* line: nothing from the first other record on is copied, header records  *)
(* after it included.                                                      *)
(***************************************************************************)
C15_OldHeaderIsLeadingRun ==
    "print_pqr_header" \in returned =>
        LET opening == {p \in DOMAIN head : head[p].txt = "Original PDB header follows"}
        IN  /\ (opening # {}) <=> hargs.include_old_header
            /\ ~hargs.include_old_header =>
                   \A p \in DOMAIN head : PqrSection(head[p]) # 6
            /\ hargs.include_old_header =>
                   \E p \in opening :
                       /\ opening = {p}
                       /\ head[p] = HLine(7, "Original PDB header follows")
                       /\ head[p + 1] = HLine(7, "")
                       /\ LET copied == SubSeq(head, p + 2, Len(head))
                          IN  /\ \A q \in DOMAIN copied :
                                     copied[q].rem = 0 /\ copied[q].txt = OldRecordTxt
                              /\ [q \in DOMAIN copied |-> copied[q].obj]
                                     = LeadingHeaderRun(hargs.pdblist)

\* The header was asked for with the flag set, for a file whose records are
\* a header record, an atom and another header record.
C15_Witness ==
    /\ "print_pqr_header" \in returned
    /\ hargs.include_old_header
    /\ hargs.pdblist = <<PdbRecord("HEADER", 1), PdbRecord("ATOM", 2), PdbRecord("REMARK", 3)>>
    /\ Len(head) > 2

(***************************************************************************)
(* DuplicateFilter                                                         *)
(*                                                                         *)
(* FILTER_WARNINGS and FILTER_WARNINGS_LIMIT come from the config module,  *)
(* which io.py imports. The limit is an input here (any value from 1 up),  *)
(* and the list holds three prefixes of which the second is a prefix of    *)
(* the first. A message is the sequence of its words.                      *)
(***************************************************************************)
MaxLimit == 2
MaxRecords == 4

FILTER_WARNINGS == << <<"Skipped", "atom">>, <<"Skipped">>, <<"Multiple">> >>

Prefixes == {FILTER_WARNINGS[i] : i \in DOMAIN FILTER_WARNINGS}

\* str.startswith
StartsWith(msg, prefix) ==
    /\ Len(msg) >= Len(prefix)
    /\ SubSeq(msg, 1, Len(prefix)) = prefix

LogRecord(levelname, msg) == [levelname |-> levelname, msg |-> msg]

LogRecords ==
    { LogRecord(lv, msg) :
        lv \in {"WARNING", "INFO"},
        msg \in { <<"Skipped", "atom", "H">>, <<"Skipped", "residue">>,
                  <<"Multiple", "occupancies">>, <<"Missing", "atom">> } }

\* The first prefix of FILTER_WARNINGS, in list order, that the message
\* starts with: the loop returns at the first match. <<>> if there is none.
RECURSIVE FirstMatch(_, _)
FirstMatch(msg, i) ==
    IF i > Len(FILTER_WARNINGS) THEN <<>>
    ELSE IF StartsWith(msg, FILTER_WARNINGS[i]) THEN FILTER_WARNINGS[i]
    ELSE FirstMatch(msg, i + 1)

\* What filter() gives back and does: its result, the counts after the call
\* and the notices it logged.
FilterOutcome(result, counts, logged) ==
    [result |-> result, warn_count |-> counts, logged |-> logged]

\* A variant that still passes the record that brings the count to the limit.
filter_PassAtLimit(record, counts) ==
    LET fwarn == FirstMatch(record.msg, 1)
    IN  IF record.levelname = "WARNING" /\ fwarn # <<>>
        THEN LET updated == [counts EXCEPT ![fwarn] = @ + 1]
             IN  IF updated[fwarn] > limit
                 THEN FilterOutcome(FALSE, updated, <<>>)
                 ELSE IF updated[fwarn] = limit
                      THEN FilterOutcome(TRUE, updated, <<fwarn>>)
                      ELSE FilterOutcome(TRUE, updated, <<>>)
        ELSE FilterOutcome(TRUE, counts, <<>>)

\* DuplicateFilter.filter
filter(record, counts) ==
    LET fwarn == FirstMatch(record.msg, 1)
    IN  IF record.levelname = "WARNING" /\ fwarn # <<>>
        THEN LET updated == [counts EXCEPT ![fwarn] = @ + 1]
             IN  IF updated[fwarn] > limit
                 THEN FilterOutcome(FALSE, updated, <<>>)
                 ELSE IF updated[fwarn] = limit
                      THEN FilterOutcome(FALSE, updated, <<fwarn>>)
                      ELSE FilterOutcome(TRUE, updated, <<>>)
        ELSE FilterOutcome(TRUE, counts, <<>>)

\* DuplicateFilter.__init__
NewCounter == [f \in Prefixes |-> 0]

FilterIdle ==
    /\ limit = 1
    /\ warn_count = NewCounter
    /\ filtered = <<>>
    /\ notices = <<>>

\* The logging machinery hands one record to the filter.
FilterRecord ==
    /\ Len(filtered) < MaxRecords
    /\ \E record \in LogRecords :
           LET out == filter(record, warn_count)
           IN  /\ warn_count' = out.warn_count
               /\ notices' = notices \o out.logged
               /\ filtered' = Append(filtered, [record |-> record, result |-> out.result])
    /\ UNCHANGED <<limit, atomVars, hdrVars, dxVars, cubeVars, readVars, fileVars>>

(***************************************************************************)
(* Reading the filter's history.                                           *)
(***************************************************************************)
\* The prefix a record is counted for (<<>> if it is counted for none).
CountedFor(record) ==
    IF record.levelname = "WARNING" THEN FirstMatch(record.msg, 1) ELSE <<>>

\* How many of the first j records given to the filter were counted for f.
CountedUpTo(f, j) == Cardinality({i \in 1..j : CountedFor(filtered[i].record) = f})

Occurrences(seq, x) == Cardinality({i \in DOMAIN seq : seq[i] = x})

(***************************************************************************)
(* C16: with L the limit (L >= 1), the k-th record counted for a prefix f  *)
(* passes if and only if k < L, so at most L - 1 of them pass; the notice  *)
(* for f has been logged once if the count of f has reached L and not at   *)
(* all before; the count of f is the number of records counted for f so    *)
(* far (it never goes down, and no other record changes it); a record that *)
(* is not a WARNING or starts with no prefix passes.                       *)
(***************************************************************************)
C16_FilterCounts ==
    /\ \A j \in DOMAIN filtered :
           LET f == CountedFor(filtered[j].record)
           IN  IF f = <<>>
               THEN filtered[j].result
               ELSE filtered[j].result <=> CountedUpTo(f, j) < limit
    /\ \A f \in Prefixes :
           /\ warn_count[f] = CountedUpTo(f, Len(filtered))
           /\ Occurrences(notices, f) = IF warn_count[f] >= limit THEN 1 ELSE 0
           /\ Cardinality({j \in DOMAIN filtered :
                             /\ CountedFor(filtered[j].record) = f
                             /\ filtered[j].result}) <= limit - 1

\* With limit 2, three warnings counted for the first prefix have been
\* filtered (the first passed, the second brought the notice) and a record
\* that is not a warning passed between them.
C16_Witness ==
    /\ limit = 2
    /\ warn_count[FILTER_WARNINGS[1]] = 3
    /\ notices = <<FILTER_WARNINGS[1]>>
    /\ \E j \in DOMAIN filtered : filtered[j].record.levelname = "INFO"

(***************************************************************************)
(* test_for_file                                                           *)
(*                                                                         *)
(* The dat directory of the package is modelled by the set of the names of *)
(* the files in it. The directory itself exists ("assert                   *)
(* dirpath_dat.is_dir()" holds in an installed package).                   *)
(***************************************************************************)
MaxFiles == 2

\* str.upper and str.lower, on the strings that occur here.
str_upper(str) ==
    CASE str \in {"amber", "Amber", "AMBER"} -> "AMBER"
      [] str \in {"yaml", "YAML"} -> "YAML"
      [] str \in {"csv", "CSV"} -> "CSV"
      [] OTHER -> str

str_lower(str) ==
    CASE str \in {"amber", "Amber", "AMBER"} -> "amber"
      [] str \in {"yaml", "YAML"} -> "yaml"
      [] str \in {"csv", "CSV"} -> "csv"
      [] OTHER -> str

\* The names asked for; None is the missing name.
FileNames == {"amber", "Amber", "AMBER", None}

\* The type_ that test_yaml_file and test_csv_file pass.
FileTypes == {"yaml", "CSV"}

\* The file names the dat directory may hold.
DatNames ==
    {stem \o suffix :
        stem \in {"amber", "Amber", "AMBER"},
        suffix \in {"", ".yaml", ".YAML", ".csv", ".CSV"}}

FORCE_FIELDS == {"amber", "charmm", "parse", "tyl06", "peoepb", "swanson"}

\* A variant that walks the suffixes in the outer loop.
Candidates_SuffixOuter(name, type_) ==
    LET test_names == <<name, str_upper(name), str_lower(name)>>
        test_suffixes == <<"", "." \o str_upper(type_), "." \o str_lower(type_)>>
    IN  [k \in 1..9 |-> test_names[((k - 1) % 3) + 1] \o test_suffixes[((k - 1) \div 3) + 1]]

\* The candidates in the order the nested loops make them: test_name in
\* the outer loop, test_suffix in the inner one.
Candidates(name, type_) ==
    LET test_names == <<name, str_upper(name), str_lower(name)>>
        test_suffixes == <<"", "." \o str_upper(type_), "." \o str_lower(type_)>>
    IN  [k \in 1..9 |-> test_names[((k - 1) \div 3) + 1] \o test_suffixes[((k - 1) % 3) + 1]]

\* The first path of the sequence that is a file, "" if none is.
RECURSIVE FirstFile(_, _)
FirstFile(paths, files) ==
    IF paths = <<>> THEN ""
    ELSE IF Head(paths) \in files THEN Head(paths)
    ELSE FirstFile(Tail(paths), files)

\* The text of the FileNotFoundError: a force-field name is put in upper
\* case for the message.
NotFoundMessage(name, type_) ==
    "Unable to find " \o type_ \o " file for "
        \o (IF str_lower(name) \in FORCE_FIELDS THEN str_upper(name) ELSE name)

FileIdle ==
    /\ tf_name = None
    /\ tf_type = ""
    /\ dat_files = {}
    /\ tf_result = ""
    /\ tf_state = "idle"

test_for_file ==
    /\ tf_state = "called"
    /\ IF tf_name = None
       THEN /\ tf_result' = ""
            /\ tf_state' = "returned"
       ELSE LET found == FirstFile(Candidates(tf_name, tf_type), dat_files)
            IN  IF found # ""
                THEN /\ tf_result' = found
                     /\ tf_state' = "returned"
                ELSE /\ tf_result' = NotFoundMessage(tf_name, tf_type)
                     /\ tf_state' = "FileNotFoundError"
    /\ UNCHANGED <<tf_name, tf_type, dat_files,
                   atomVars, hdrVars, dxVars, cubeVars, readVars, filterVars>>

(***************************************************************************)
(* C17: for a name that is not None the call tries name, NAME and the      *)
(* lower-case name, each with the suffixes "", ".TYPE" and ".type", in     *)
(* that nested order, and returns the first of the nine that is a file of  *)
(* the dat directory; it raises FileNotFoundError exactly when none of the *)
(* nine is. So for a stem whose file "stem.yaml" (with type_ "yaml") or    *)
(* "stem.csv" (with type_ "CSV") is in the directory, as the bundled       *)
(* definition, names and parameter files are, the call returns a file of   *)
(* the directory.                                                          *)
(***************************************************************************)
C17_FirstExistingCandidate ==
    (tf_name # None /\ tf_state \notin {"idle", "called"}) =>
        LET n == tf_name
            U == str_upper(tf_name)
            l == str_lower(tf_name)
            T == "." \o str_upper(tf_type)
            t == "." \o str_lower(tf_type)
            nine == <<n, n \o T, n \o t, U, U \o T, U \o t, l, l \o T, l \o t>>
        IN  /\ tf_state \in {"returned", "FileNotFoundError"}
            /\ tf_state = "FileNotFoundError" <=> \A k \in 1..9 : nine[k] \notin dat_files
            /\ tf_state = "returned" =>
                   \E k \in 1..9 :
                       /\ tf_result = nine[k]
                       /\ nine[k] \in dat_files
                       /\ \A j \in 1..(k - 1) : nine[j] \notin dat_files
            /\ (n \o t) \in dat_files => (tf_state = "returned" /\ tf_result \in dat_files)

\* Two of the nine candidates for "Amber" exist, and the one found is the
\* earlier in the nested order although its suffix comes later.
C17_Witness ==
    /\ tf_state = "returned"
    /\ tf_name = "Amber"
    /\ tf_type = "yaml"
    /\ dat_files = {"Amber.yaml", "AMBER"}
    /\ tf_result = "Amber.yaml"

(***************************************************************************)
(* Specifications: one per function under study; the state of the others   *)
(* is idle.                                                                *)
(***************************************************************************)
InitAtoms ==
    /\ atomlist \in SeqsUpTo(Atoms, MaxAtoms)
    /\ serial_before = [k \in 1..Len(atomlist) |-> atomlist[k].serial]
    /\ chainflag \in BOOLEAN
    /\ pdbfile \in BOOLEAN
    /\ text = <<>>
    /\ currentchain_id = None
    /\ iatom = 0
    /\ pba_pc = "loop"
    /\ HdrIdle
    /\ DxIdle
    /\ CubeIdle
    /\ ReadIdle
    /\ FilterIdle
    /\ FileIdle

NextAtoms == LoopAtom \/ FinishAtoms

SpecAtoms == InitAtoms /\ [][NextAtoms]_vars
InitHeader ==
    /\ hargs \in HeaderArgs
    /\ head = <<>>
    /\ header = <<>>
    /\ returned = {}
    /\ log = <<>>
    /\ AtomsIdle
    /\ DxIdle
    /\ CubeIdle
    /\ ReadIdle
    /\ FilterIdle
    /\ FileIdle

NextHeader == CallPrintPqrHeader \/ CallPrintPqrHeaderCif

SpecHeader == InitHeader /\ [][NextHeader]_vars
InitDx ==
    /\ dx_file \in SeqsUpTo(DxLines, MaxDxLines)
    /\ dx_dict = NewDxDict
    /\ dx_pos = 0
    /\ dx_state = "reading"
    /\ AtomsIdle
    /\ HdrIdle
    /\ CubeIdle
    /\ ReadIdle
    /\ FilterIdle
    /\ FileIdle

NextDx == DxReadLine \/ DxReturn

SpecDx == InitDx /\ [][NextDx]_vars
InitCube ==
    /\ cube_args \in CubeArgs
    /\ cube_file = <<>>
    /\ cube_i = 0
    /\ cube_pc = "start"
    /\ AtomsIdle
    /\ HdrIdle
    /\ DxIdle
    /\ ReadIdle
    /\ FilterIdle
    /\ FileIdle

NextCube == WriteCubeHeader \/ WriteCubeRow \/ WriteCubeDone

SpecCube == InitCube /\ [][NextCube]_vars

InitRead ==
    /\ rd_fn \in {"read_pqr", "read_qcd"}
    /\ rd_file \in SeqsUpTo(ReadLines, MaxReadLines)
    /\ rd_atoms = <<>>
    /\ atom_serial = 1
    /\ rd_pos = 0
    /\ rd_state = "reading"
    /\ AtomsIdle
    /\ HdrIdle
    /\ DxIdle
    /\ CubeIdle
    /\ FilterIdle
    /\ FileIdle

NextRead == ReadPqrLine \/ ReadPqrReturn \/ ReadQcdLine \/ ReadQcdReturn

SpecRead == InitRead /\ [][NextRead]_vars

InitFilter ==
    /\ limit \in 1..MaxLimit
    /\ warn_count = NewCounter
    /\ filtered = <<>>
    /\ notices = <<>>
    /\ AtomsIdle
    /\ HdrIdle
    /\ DxIdle
    /\ CubeIdle
    /\ ReadIdle
    /\ FileIdle

NextFilter == FilterRecord

SpecFilter == InitFilter /\ [][NextFilter]_vars

InitFile ==
    /\ tf_name \in FileNames
    /\ tf_type \in FileTypes
    /\ dat_files \in {fs \in SUBSET DatNames : Cardinality(fs) <= MaxFiles}
    /\ tf_result = ""
    /\ tf_state = "called"
    /\ AtomsIdle
    /\ HdrIdle
    /\ DxIdle
    /\ CubeIdle
    /\ ReadIdle
    /\ FilterIdle

NextFile == test_for_file

SpecFile == InitFile /\ [][NextFile]_vars

====
